---- MODULE Spec2Model ----
(***************************************************************************)
(* TelegramExecutionContext (update classification and reply routing) of   *)
(* the tgbot library, as a state machine: one context, built for one       *)
(* inbound update, on which the handler calls the reply operations.  Every *)
(* operation is one atomic step that records the outbound API calls it     *)
(* made and the value it returned.                                         *)
(*                                                                         *)
(* Representation.  An optional JSON field is <<>> (absent, undefined) or  *)
(* <<v>> (present with value v).  Any combination of the optional fields   *)
(* of an update may be present together; the values of present fields are  *)
(* those the Telegram Bot API produces: chat and message identifiers are   *)
(* non-zero integers, query and callback identifiers and message texts are *)
(* non-empty strings, an inline query string may be empty.  An API         *)
(* parameter mapping is a function from parameter names to values.         *)
(***************************************************************************)
EXTENDS Integers, Sequences, FiniteSets, TLC

VARIABLES bot, update, update_type, op, calls,
          db, lastId, now, showThinkingProcess, pending, req, waiting

\* the worker around the context: the messages table and its AUTOINCREMENT
\* counter, the clock, the module-level flag, the cleanups handed to
\* ctx.waitUntil and not yet run, the webhook request being served, and the
\* message request that is suspended at its await of callDeepSeekAPI
wvars == <<db, lastId, now, showThinkingProcess, pending, req, waiting>>

vars == <<bot, update, update_type, op, calls, wvars>>

(* ------------------------------ bounds -------------------------------- *)

MaxChat == 2
MaxMsg == 1

ChatIds == {40 + i : i \in 1..MaxChat}
MessageIds == {6 + i : i \in 1..MaxMsg}

(* ------------------------- JavaScript helpers -------------------------- *)

Absent == <<>>
Some(v) == <<v>>
Opt(S) == {Absent} \cup {Some(v) : v \in S}

\* truthiness of an optional string: undefined and '' are falsy
TruthyStr(o) == o /= Absent /\ o[1] /= ""
\* truthiness of an optional number: undefined and 0 are falsy
TruthyNum(o) == o /= Absent /\ o[1] /= 0
\* truthiness of an optional object or array: only undefined is falsy
TruthyObj(o) == o /= Absent

\* variant: ...options is written after the routing fields, its keys win
Spread_OptionsLast(base, fields) ==
    [k \in DOMAIN base \cup DOMAIN fields |->
        IF k \in DOMAIN base THEN base[k] ELSE fields[k]]

\* { ...base, k1: v1, ... }: the later keys win
Spread(base, fields) ==
    [k \in DOMAIN base \cup DOMAIN fields |->
        IF k \in DOMAIN fields THEN fields[k] ELSE base[k]]

NoParams == [k \in {} |-> ""]

(* ------------------------------ updates -------------------------------- *)

Texts == {"hi"}
Queries == {"", "cats"}

\* photo, document: whether the array / object is present (both are truthy
\* whenever present); chat_id is message.chat.id
Messages ==
    [chat_id : ChatIds, message_id : MessageIds,
     photo : BOOLEAN, text : Opt(Texts), document : BOOLEAN]

InlineQueries == [id : {"q1"}, query : Queries]

\* callback_query.message is absent for a callback that originates from a
\* message sent via inline mode
CallbackQueries == [id : {"cb1"}, message_chat_id : Opt(ChatIds)]

BusinessMessages == [chat_id : ChatIds, business_connection_id : {"bc1"}]

Updates ==
    [message : Opt(Messages), inline_query : Opt(InlineQueries),
     callback_query : Opt(CallbackQueries),
     business_message : Opt(BusinessMessages)]

Bots == {[api |-> "https://api.telegram.org/botT1", token |-> "T1"]}

(* --------------------------- classification ---------------------------- *)

\* message?.f for a field f of the message
MessageField(u, f) == IF u.message = Absent THEN Absent ELSE Some(u.message[1][f])

\* variant: the document test moved in front of the inline test
determineUpdateType_DocumentFirst(u) ==
    IF u.message /= Absent /\ u.message[1].photo THEN "photo"
    ELSE IF u.message /= Absent /\ TruthyStr(u.message[1].text) THEN "message"
    ELSE IF u.message /= Absent /\ u.message[1].document THEN "document"
    ELSE IF u.inline_query /= Absent /\ TruthyStr(Some(u.inline_query[1].query))
        THEN "inline"
    ELSE IF u.callback_query /= Absent /\ TruthyStr(Some(u.callback_query[1].id))
        THEN "callback"
    ELSE IF TruthyObj(u.business_message) THEN "business_message"
    ELSE ""

\* variant: no final return, the fall-through yields undefined
determineUpdateType_NoDefault(u) ==
    IF u.message /= Absent /\ u.message[1].photo THEN "photo"
    ELSE IF u.message /= Absent /\ TruthyStr(u.message[1].text) THEN "message"
    ELSE IF u.inline_query /= Absent /\ TruthyStr(Some(u.inline_query[1].query))
        THEN "inline"
    ELSE IF u.message /= Absent /\ u.message[1].document THEN "document"
    ELSE IF u.callback_query /= Absent /\ TruthyStr(Some(u.callback_query[1].id))
        THEN "callback"
    ELSE IF TruthyObj(u.business_message) THEN "business_message"
    ELSE "undefined"

determineUpdateType(u) ==
    IF u.message /= Absent /\ u.message[1].photo THEN "photo"
    ELSE IF u.message /= Absent /\ TruthyStr(u.message[1].text) THEN "message"
    ELSE IF u.inline_query /= Absent /\ TruthyStr(Some(u.inline_query[1].query))
        THEN "inline"
    ELSE IF u.message /= Absent /\ u.message[1].document THEN "document"
    ELSE IF u.callback_query /= Absent /\ TruthyStr(Some(u.callback_query[1].id))
        THEN "callback"
    ELSE IF TruthyObj(u.business_message) THEN "business_message"
    ELSE ""

(* ------------------------------ accessors ------------------------------ *)

\* variant: the business message is looked at before the message
getChatId_BusinessFirst(u) ==
    IF u.business_message /= Absent
            /\ TruthyNum(Some(u.business_message[1].chat_id))
        THEN ToString(u.business_message[1].chat_id)
    ELSE IF TruthyNum(MessageField(u, "chat_id"))
        THEN ToString(u.message[1].chat_id)
    ELSE ""

getChatId(u) ==
    IF TruthyNum(MessageField(u, "chat_id"))
        THEN ToString(u.message[1].chat_id)
    ELSE IF u.business_message /= Absent
            /\ TruthyNum(Some(u.business_message[1].chat_id))
        THEN ToString(u.business_message[1].chat_id)
    ELSE ""

\* variant: the chat id is returned for the message id
getMessageId_ChatId(u) ==
    IF u.message = Absent THEN "" ELSE ToString(u.message[1].chat_id)

getMessageId(u) ==
    IF u.message = Absent THEN "" ELSE ToString(u.message[1].message_id)

(* ---------------------------- outbound API ----------------------------- *)

ParseModes == {"", "HTML"}
Photos == {"photo1"}
Captions == {"", "cap"}
Videos == {"video1"}
Titles == {"Title"}
FileIds == {"file1"}

\* caller-supplied options: none, an extra parameter, a reply target, and a
\* mapping that names every routing and payload parameter
Options ==
    {NoParams,
     [disable_notification |-> "true"],
     [reply_to_message_id |-> "99"],
     [chat_id |-> "666", reply_to_message_id |-> "99", text |-> "opt",
      parse_mode |-> "opt", photo |-> "opt", caption |-> "opt",
      video |-> "opt"]}

\* the fixed notices of the degraded notification (Chinese in the source:
\* "sending the message / the picture / the video failed, getting the file
\* failed, please retry later")
ReplyFailedNotice == "message-send-failed-retry-later"
PhotoFailedNotice == "photo-send-failed-retry-later"
VideoFailedNotice == "video-send-failed-retry-later"
FileFailedNotice == "get-file-failed-retry-later"

\* the inline results the context constructs, by their class
TelegramInlineQueryResultArticle(content, title, parse_mode) ==
    [class |-> "TelegramInlineQueryResultArticle", content |-> content,
     title |-> title, parse_mode |-> parse_mode]
TelegramInlineQueryResultPhoto(photo) ==
    [class |-> "TelegramInlineQueryResultPhoto", photo |-> photo]
TelegramInlineQueryResultVideo(video) ==
    [class |-> "TelegramInlineQueryResultVideo", video |-> video]

ResultLists ==
    {<<>>, <<TelegramInlineQueryResultArticle("hi", "Title", "")>>}

\* one call this.api.<method>(this.bot.api.toString(), params[, token]);
\* fails = the call rejects
ApiCall(method, params, extra, fails) ==
    [method |-> method, api |-> bot.api, params |-> params,
     extra |-> extra, ok |-> ~fails]

\* what an operation did: the calls it issued, in order, and how it ended
\* ("response": the API response, "null", or "raised")
Outcome(cs, r) == [calls |-> cs, result |-> r]

\* variant: a failure of the call made in the catch block escapes
Try_Propagates(c, handler, onFail) ==
    IF c.ok THEN Outcome(<<c>>, "response")
    ELSE Outcome(<<c>> \o handler,
                 IF handler /= <<>> /\ ~handler[1].ok THEN "raised"
                 ELSE onFail)

\* return await <call> inside try; handler = the calls of the catch block,
\* onFail = what the catch block ends with
Try(c, handler, onFail) ==
    IF c.ok THEN Outcome(<<c>>, "response")
    ELSE Outcome(<<c>> \o handler, onFail)

\* variant: the connection id is never read
businessConnectionId_Empty(u) == ""

\* business_message?.business_connection_id.toString() ?? ''
businessConnectionId(u) ==
    IF u.business_message = Absent THEN ""
    ELSE u.business_message[1].business_connection_id

\* variant: the query string is taken for the query id
inlineQueryId_Query(u) ==
    IF u.inline_query = Absent THEN "" ELSE u.inline_query[1].query

\* inline_query?.id.toString() ?? ''
inlineQueryId(u) ==
    IF u.inline_query = Absent THEN "" ELSE u.inline_query[1].id

\* callback_query?.message.chat.id: reading .chat of an absent message
\* throws a TypeError
CallbackChatThrows(u) ==
    u.callback_query /= Absent /\ u.callback_query[1].message_chat_id = Absent
CallbackChatId(u) ==
    IF u.callback_query = Absent THEN Absent
    ELSE u.callback_query[1].message_chat_id

\* variant: the kind '' is treated like a message kind
IsMessageKind_OrNone(t) == t \in {"message", "photo", "document", ""}

IsMessageKind(t) == t \in {"message", "photo", "document"}

(* ------------------------------ operations ----------------------------- *)

\* variant: no notice is ever sent
sendErrorMessage_Silent(errorMessage, fails) == <<>>

\* the calls of sendErrorMessage (it never raises and its value is unused)
sendErrorMessage(errorMessage, fails) ==
    IF IsMessageKind(update_type) THEN
        <<ApiCall("sendMessage",
                  [chat_id |-> getChatId(update), text |-> errorMessage,
                   parse_mode |-> ""], <<>>, fails)>>
    ELSE IF update_type = "business_message" THEN
        <<ApiCall("sendMessage",
                  [chat_id |-> getChatId(update), text |-> errorMessage,
                   business_connection_id |-> businessConnectionId(update),
                   parse_mode |-> ""], <<>>, fails)>>
    ELSE IF update_type = "callback" /\ ~CallbackChatThrows(update)
            /\ TruthyNum(CallbackChatId(update)) THEN
        <<ApiCall("sendMessage",
                  [chat_id |-> ToString(CallbackChatId(update)[1]),
                   text |-> errorMessage, parse_mode |-> ""], <<>>, fails)>>
    ELSE <<>>

\* the case labels of the direct send of replyVideo
replyVideoKinds == {"message"}

replyVideo(video, options, f1, f2) ==
    IF update_type \in replyVideoKinds THEN
        Try(ApiCall("sendVideo",
                    Spread(options,
                           [chat_id |-> getChatId(update),
                            reply_to_message_id |-> getMessageId(update),
                            video |-> video]), <<>>, f1),
            sendErrorMessage(VideoFailedNotice, f2), "null")
    ELSE IF update_type = "inline" THEN
        Try(ApiCall("answerInline",
                    Spread(options,
                           [inline_query_id |-> inlineQueryId(update),
                            results |-> <<TelegramInlineQueryResultVideo(video)>>]),
                    <<>>, f1),
            sendErrorMessage(VideoFailedNotice, f2), "null")
    ELSE Outcome(<<>>, "null")

\* variant: the error is swallowed after the notice
getFile_Swallows(file_id, f1, f2) ==
    Try(ApiCall("getFile", [file_id |-> file_id], <<bot.token>>, f1),
        sendErrorMessage(FileFailedNotice, f2), "null")

getFile(file_id, f1, f2) ==
    Try(ApiCall("getFile", [file_id |-> file_id], <<bot.token>>, f1),
        sendErrorMessage(FileFailedNotice, f2), "raised")

\* variant: the 'photo' label is missing
replyPhotoKinds_MessageOnly == {"message"}

\* the case labels of the direct send of replyPhoto
replyPhotoKinds == {"photo", "message"}

replyPhoto(photo, caption, options, f1, f2) ==
    IF update_type \in replyPhotoKinds THEN
        Try(ApiCall("sendPhoto",
                    Spread(options,
                           [chat_id |-> getChatId(update),
                            reply_to_message_id |-> getMessageId(update),
                            photo |-> photo, caption |-> caption]), <<>>, f1),
            sendErrorMessage(PhotoFailedNotice, f2), "null")
    ELSE IF update_type = "inline" THEN
        Try(ApiCall("answerInline",
                    [inline_query_id |-> inlineQueryId(update),
                     results |-> <<TelegramInlineQueryResultPhoto(photo)>>],
                    <<>>, f1),
            sendErrorMessage(PhotoFailedNotice, f2), "null")
    ELSE Outcome(<<>>, "null")

\* variant: the business_message case is missing
sendTyping_NoBusiness(f1) ==
    IF IsMessageKind(update_type) THEN
        Try(ApiCall("sendChatAction",
                    [chat_id |-> getChatId(update), action |-> "typing"],
                    <<>>, f1),
            <<>>, "null")
    ELSE Outcome(<<>>, "null")

sendTyping(f1) ==
    IF IsMessageKind(update_type) THEN
        Try(ApiCall("sendChatAction",
                    [chat_id |-> getChatId(update), action |-> "typing"],
                    <<>>, f1),
            <<>>, "null")
    ELSE IF update_type = "business_message" THEN
        Try(ApiCall("sendChatAction",
                    [business_connection_id |-> businessConnectionId(update),
                     chat_id |-> getChatId(update), action |-> "typing"],
                    <<>>, f1),
            <<>>, "null")
    ELSE Outcome(<<>>, "null")

replyInline(title, message, parse_mode, f1) ==
    IF update_type = "inline" THEN
        Try(ApiCall("answerInline",
                    [inline_query_id |-> inlineQueryId(update),
                     results |->
                        <<TelegramInlineQueryResultArticle(message, title, parse_mode)>>],
                    <<>>, f1),
            <<>>, "null")
    ELSE Outcome(<<>>, "null")

\* variant: the catch block sends nothing
replyRetry_None(f2) == <<>>

\* variant: the notice is sent whatever the kind
replyRetry_AnyKind(f2) ==
    <<ApiCall("sendMessage",
              [chat_id |-> getChatId(update), text |-> ReplyFailedNotice,
               parse_mode |-> ""], <<>>, f2)>>

\* the catch block of reply: one plain notice, for the message kinds only
replyRetry(f2) ==
    IF IsMessageKind(update_type) THEN
        <<ApiCall("sendMessage",
                  [chat_id |-> getChatId(update), text |-> ReplyFailedNotice,
                   parse_mode |-> ""], <<>>, f2)>>
    ELSE <<>>

reply(message, parse_mode, options, f1, f2) ==
    IF IsMessageKind(update_type) THEN
        Try(ApiCall("sendMessage",
                    Spread(options,
                           [chat_id |-> getChatId(update),
                            reply_to_message_id |-> getMessageId(update),
                            text |-> message, parse_mode |-> parse_mode]),
                    <<>>, f1),
            replyRetry(f2), "null")
    ELSE IF update_type = "business_message" THEN
        Try(ApiCall("sendMessage",
                    [chat_id |-> getChatId(update), text |-> message,
                     business_connection_id |-> businessConnectionId(update),
                     parse_mode |-> parse_mode], <<>>, f1),
            replyRetry(f2), "null")
    ELSE IF update_type = "callback" THEN
        IF CallbackChatThrows(update) THEN Outcome(replyRetry(f2), "null")
        ELSE IF TruthyNum(CallbackChatId(update)) THEN
            Try(ApiCall("sendMessage",
                        Spread(options,
                               [chat_id |-> ToString(CallbackChatId(update)[1]),
                                text |-> message, parse_mode |-> parse_mode]),
                        <<>>, f1),
                replyRetry(f2), "null")
        ELSE Outcome(<<>>, "null")
    ELSE IF update_type = "inline" THEN
        replyInline("Response", message, parse_mode, f1)
    ELSE Outcome(<<>>, "null")

\* variant: the kind is not tested
answerInlineQuery_AnyKind(results, f1) ==
    IF update.inline_query /= Absent
            /\ TruthyStr(Some(update.inline_query[1].id)) THEN
        Try(ApiCall("answerInline",
                    [inline_query_id |-> update.inline_query[1].id,
                     results |-> results], <<>>, f1),
            <<>>, "null")
    ELSE Outcome(<<>>, "null")

answerInlineQuery(results, f1) ==
    IF update_type = "inline" /\ update.inline_query /= Absent
            /\ TruthyStr(Some(update.inline_query[1].id)) THEN
        Try(ApiCall("answerInline",
                    [inline_query_id |-> update.inline_query[1].id,
                     results |-> results], <<>>, f1),
            <<>>, "null")
    ELSE Outcome(<<>>, "null")

(* ------------------------------- state --------------------------------- *)

\* op: the last operation called on the context, its arguments and what it
\* returned; calls: the API calls that operation issued, in order
NoOp == [name |-> "new", args |-> <<>>, options |-> NoParams,
         results |-> <<>>, result |-> "none"]

\* no webhook request is being served
NoRequest == [stage |-> "idle", handler |-> "", chat |-> "", text |-> "",
              ev |-> <<>>, history |-> <<>>, status |-> 0]

\* no message request is suspended
NoWaiting == <<>>

\* a worker that has served nothing yet: empty table, flag off (line 94)
WorkerStart ==
    /\ db = <<>>
    /\ lastId = 0
    /\ now = 0
    /\ showThinkingProcess = FALSE
    /\ pending = 0
    /\ req = NoRequest
    /\ waiting = NoWaiting

Init ==
    /\ bot \in Bots
    /\ update \in Updates
    /\ update_type = determineUpdateType(update)
    /\ op = NoOp
    /\ calls = <<>>
    /\ WorkerStart

\* f1: the primary call fails; f2: the call of the catch block fails, which
\* is only made when the primary call failed

\* the record of an operation that was called and has ended
Called(name, args, options, results, out) ==
    [name |-> name, args |-> args, options |-> options,
     results |-> results, result |-> out.result]

\* variant: a reply that ends with null clears the kind tag
Reply_ClearsKind ==
    \E m \in Texts, pm \in ParseModes, o \in Options, f1 \in BOOLEAN :
    \E f2 \in IF f1 THEN BOOLEAN ELSE {FALSE} :
        LET out == reply(m, pm, o, f1, f2) IN
        /\ op' = Called("reply", <<m, pm>>, o, <<>>, out)
        /\ calls' = out.calls
        /\ update_type' = IF out.result = "null" THEN "" ELSE update_type
        /\ UNCHANGED <<bot, update, wvars>>

Reply ==
    \E m \in Texts, pm \in ParseModes, o \in Options, f1 \in BOOLEAN :
    \E f2 \in IF f1 THEN BOOLEAN ELSE {FALSE} :
        LET out == reply(m, pm, o, f1, f2) IN
        /\ op' = Called("reply", <<m, pm>>, o, <<>>, out)
        /\ calls' = out.calls
        /\ UNCHANGED <<bot, update, update_type, wvars>>

ReplyPhoto ==
    \E p \in Photos, c \in Captions, o \in Options, f1 \in BOOLEAN :
    \E f2 \in IF f1 THEN BOOLEAN ELSE {FALSE} :
        LET out == replyPhoto(p, c, o, f1, f2) IN
        /\ op' = Called("replyPhoto", <<p, c>>, o, <<>>, out)
        /\ calls' = out.calls
        /\ UNCHANGED <<bot, update, update_type, wvars>>

ReplyVideo ==
    \E v \in Videos, o \in Options, f1 \in BOOLEAN :
    \E f2 \in IF f1 THEN BOOLEAN ELSE {FALSE} :
        LET out == replyVideo(v, o, f1, f2) IN
        /\ op' = Called("replyVideo", <<v>>, o, <<>>, out)
        /\ calls' = out.calls
        /\ UNCHANGED <<bot, update, update_type, wvars>>

ReplyInline ==
    \E t \in Titles, m \in Texts, pm \in ParseModes, f1 \in BOOLEAN :
        LET out == replyInline(t, m, pm, f1) IN
        /\ op' = Called("replyInline", <<t, m, pm>>, NoParams, <<>>, out)
        /\ calls' = out.calls
        /\ UNCHANGED <<bot, update, update_type, wvars>>

\* variant: a typing action right after a typing action is dropped
SendTyping_Dedup ==
    \E f1 \in BOOLEAN :
        LET out == IF op.name = "sendTyping" THEN Outcome(<<>>, "null")
                   ELSE sendTyping(f1) IN
        /\ op' = Called("sendTyping", <<>>, NoParams, <<>>, out)
        /\ calls' = out.calls
        /\ UNCHANGED <<bot, update, update_type, wvars>>

SendTyping ==
    \E f1 \in BOOLEAN :
        LET out == sendTyping(f1) IN
        /\ op' = Called("sendTyping", <<>>, NoParams, <<>>, out)
        /\ calls' = out.calls
        /\ UNCHANGED <<bot, update, update_type, wvars>>

AnswerInlineQuery ==
    \E rs \in ResultLists, f1 \in BOOLEAN :
        LET out == answerInlineQuery(rs, f1) IN
        /\ op' = Called("answerInlineQuery", <<>>, NoParams, rs, out)
        /\ calls' = out.calls
        /\ UNCHANGED <<bot, update, update_type, wvars>>

GetFile ==
    \E f \in FileIds, f1 \in BOOLEAN :
    \E f2 \in IF f1 THEN BOOLEAN ELSE {FALSE} :
        LET out == getFile(f, f1, f2) IN
        /\ op' = Called("getFile", <<f>>, NoParams, <<>>, out)
        /\ calls' = out.calls
        /\ UNCHANGED <<bot, update, update_type, wvars>>

Next ==
    \/ Reply
    \/ ReplyPhoto
    \/ ReplyVideo
    \/ ReplyInline
    \/ SendTyping
    \/ AnswerInlineQuery
    \/ GetFile

Spec == Init /\ [][Next]_vars

(* ------------------------- properties: helpers ------------------------- *)

Kinds == {"message", "photo", "inline", "document", "callback",
          "business_message", ""}

MessagePresent == update.message /= Absent
PhotoPresent == MessagePresent /\ update.message[1].photo
TextPresent == MessagePresent /\ update.message[1].text /= Absent
DocumentPresent == MessagePresent /\ update.message[1].document
QueryNonEmpty ==
    update.inline_query /= Absent /\ update.inline_query[1].query /= ""
CallbackIdPresent == update.callback_query /= Absent
BusinessPresent == update.business_message /= Absent

MessageChat == ToString(update.message[1].chat_id)
MessageIdStr == ToString(update.message[1].message_id)
BusinessChat == ToString(update.business_message[1].chat_id)

Has(params, k) == k \in DOMAIN params
Count(method) ==
    Cardinality({i \in 1..Len(calls) : calls[i].method = method})

(* ------------------------------ properties ----------------------------- *)

\* C1: the kind of the context is the result of the fixed precedence: photo
\* present, else text present, else inline query with non-empty query, else
\* document present, else callback query id present, else business message
\* present, else '' -- also when several of the fields coexist.
C1_Precedence ==
    update_type =
        IF PhotoPresent THEN "photo"
        ELSE IF TextPresent THEN "message"
        ELSE IF QueryNonEmpty THEN "inline"
        ELSE IF DocumentPresent THEN "document"
        ELSE IF CallbackIdPresent THEN "callback"
        ELSE IF BusinessPresent THEN "business_message"
        ELSE ""

\* an update in which inline query, document, callback query and business
\* message coexist, classified as inline
C1_Witness ==
    /\ ~PhotoPresent /\ ~TextPresent
    /\ QueryNonEmpty /\ DocumentPresent /\ CallbackIdPresent /\ BusinessPresent
    /\ update_type = "inline"

\* C2: classification is total: whatever fields are present or absent, the
\* context exists and its kind is one of the seven tags.
C2_Total == update_type \in Kinds

\* contexts of an update without any field and of an update with every field
C2_Witness ==
    \/ /\ ~MessagePresent /\ update.inline_query = Absent
       /\ ~CallbackIdPresent /\ ~BusinessPresent /\ update_type = ""
       /\ op.name = "reply"
    \/ /\ PhotoPresent /\ TextPresent /\ DocumentPresent /\ QueryNonEmpty
       /\ CallbackIdPresent /\ BusinessPresent /\ update_type = "photo"
       /\ op.name = "reply"

\* C3: no operation, succeeding or failing, changes the kind tag, the update
\* or the bot reference of the context.
C3_Immutable ==
    [][update_type' = update_type /\ update' = update /\ bot' = bot]_vars

\* an operation whose primary call and degraded notification both failed
C3_Witness ==
    /\ op.name = "reply" /\ op.result = "null"
    /\ Len(calls) = 2 /\ ~calls[1].ok /\ ~calls[2].ok
    /\ update_type = "message"

\* C4 as stated: the chat id accessor is keyed by the kind: message.chat.id
\* for message, photo and document, business_message.chat.id for
\* business_message, '' for inline, callback and none.
C4_Original ==
    getChatId(update) =
        IF IsMessageKind(update_type) THEN MessageChat
        ELSE IF update_type = "business_message" THEN BusinessChat
        ELSE ""

\* C4 amended: the chat id accessor is keyed by the fields of the update:
\* message.chat.id whenever a message is present (always the case for the
\* kinds message, photo and document), else business_message.chat.id when a
\* business message is present, else ''.
C4_ChatIdByField ==
    /\ getChatId(update) =
           IF MessagePresent THEN MessageChat
           ELSE IF BusinessPresent THEN BusinessChat
           ELSE ""
    /\ IsMessageKind(update_type) => getChatId(update) = MessageChat
    /\ update_type = "business_message" /\ ~MessagePresent
          => getChatId(update) = BusinessChat
    /\ (op.name = "sendTyping" /\ calls /= <<>>)
          => calls[1].params.chat_id = getChatId(update)

\* a message that is neither text, photo nor document: kind '' and a chat id
C4_Witness ==
    /\ update_type = "" /\ MessagePresent
    /\ getChatId(update) = MessageChat /\ getChatId(update) /= ""
    /\ op.name = "sendTyping"

\* C5: reply on a message, photo or document context issues exactly one
\* sendMessage whose parameters hold chat_id = message.chat.id,
\* reply_to_message_id = message.message_id, text and parse_mode as given;
\* it is the first call, and the only one when it succeeds.
C5_ReplyDirect ==
    (op.name = "reply" /\ IsMessageKind(update_type)) =>
        /\ Len(calls) >= 1
        /\ calls[1].method = "sendMessage"
        /\ calls[1].params.chat_id = MessageChat
        /\ calls[1].params.reply_to_message_id = MessageIdStr
        /\ calls[1].params.text = op.args[1]
        /\ calls[1].params.parse_mode = op.args[2]
        /\ Cardinality({i \in 1..Len(calls) :
                /\ calls[i].method = "sendMessage"
                /\ Has(calls[i].params, "reply_to_message_id")}) = 1
        /\ calls[1].ok => (Len(calls) = 1 /\ op.result = "response")

\* chat.id 42, message_id 7, reply('hi', 'HTML') without options
C5_Witness ==
    /\ op.name = "reply" /\ update_type = "message"
    /\ op.args = <<"hi", "HTML">> /\ op.options = NoParams
    /\ Len(calls) = 1
    /\ calls[1].params =
          [chat_id |-> "42", reply_to_message_id |-> "7", text |-> "hi",
           parse_mode |-> "HTML"]

\* C6 as stated: reply on a business_message context issues exactly one
\* sendMessage carrying business_connection_id =
\* business_message.business_connection_id and chat_id =
\* business_message.chat.id, and no reply_to_message_id.
C6_Original ==
    (op.name = "reply" /\ update_type = "business_message") =>
        /\ Len(calls) = 1
        /\ calls[1].method = "sendMessage"
        /\ calls[1].params.business_connection_id =
              update.business_message[1].business_connection_id
        /\ calls[1].params.chat_id = BusinessChat
        /\ ~Has(calls[1].params, "reply_to_message_id")

\* C6 amended: the one sendMessage carries the business connection id, no
\* reply_to_message_id, and the chat id of the accessor: that of the
\* business message when the update holds no message, that of the message
\* when one (without photo, text or document) coexists.
C6_ReplyBusiness ==
    (op.name = "reply" /\ update_type = "business_message") =>
        /\ Len(calls) = 1
        /\ calls[1].method = "sendMessage"
        /\ calls[1].params.business_connection_id =
              update.business_message[1].business_connection_id
        /\ calls[1].params.chat_id =
              IF MessagePresent THEN MessageChat ELSE BusinessChat
        /\ ~Has(calls[1].params, "reply_to_message_id")
        /\ DOMAIN calls[1].params =
              {"chat_id", "text", "business_connection_id", "parse_mode"}
        /\ calls[1].params.text = op.args[1]

\* a reply to a business message that is alone in its update
C6_Witness ==
    /\ op.name = "reply" /\ update_type = "business_message"
    /\ ~MessagePresent
    /\ Len(calls) = 1
    /\ calls[1].params.chat_id = BusinessChat
    /\ calls[1].params.business_connection_id = "bc1"

\* C7 as stated: reply on a callback context sends exactly one sendMessage
\* to callback_query.message.chat.id, without reply_to_message_id.
C7_Original ==
    (op.name = "reply" /\ update_type = "callback") =>
        /\ Len(calls) = 1
        /\ calls[1].method = "sendMessage"
        /\ CallbackChatId(update) /= Absent
        /\ calls[1].params.chat_id = ToString(CallbackChatId(update)[1])
        /\ ~Has(calls[1].params, "reply_to_message_id")

\* C7 amended: when the callback query has an originating message, reply
\* sends exactly one sendMessage to that message's chat id, with a
\* reply_to_message_id only if the caller's options hold one (and then that
\* one); when it has none, reply makes no call and returns null.
C7_ReplyCallback ==
    (op.name = "reply" /\ update_type = "callback") =>
        IF CallbackChatId(update) /= Absent
        THEN /\ Len(calls) = 1
             /\ calls[1].method = "sendMessage"
             /\ calls[1].params.chat_id = ToString(CallbackChatId(update)[1])
             /\ calls[1].params.text = op.args[1]
             /\ Has(calls[1].params, "reply_to_message_id")
                   <=> Has(op.options, "reply_to_message_id")
             /\ Has(calls[1].params, "reply_to_message_id")
                   => calls[1].params.reply_to_message_id
                         = op.options.reply_to_message_id
        ELSE calls = <<>> /\ op.result = "null"

\* a reply, without options, to a callback query that has a message
C7_Witness ==
    /\ op.name = "reply" /\ update_type = "callback"
    /\ CallbackChatId(update) /= Absent
    /\ op.options = NoParams
    /\ Len(calls) = 1
    /\ calls[1].params.chat_id = ToString(CallbackChatId(update)[1])
    /\ ~Has(calls[1].params, "reply_to_message_id")

\* C8: reply on an inline context makes no sendMessage call; it issues what
\* replyInline('Response', text, parseMode) issues: exactly one answerInline
\* with inline_query_id = inline_query.id and one article result wrapping
\* the text.
C8_ReplyInline ==
    (op.name = "reply" /\ update_type = "inline") =>
        /\ Count("sendMessage") = 0
        /\ Len(calls) = 1
        /\ calls[1].method = "answerInline"
        /\ calls[1].params.inline_query_id = update.inline_query[1].id
        /\ calls[1].params.results =
              <<TelegramInlineQueryResultArticle(op.args[1], "Response",
                                                 op.args[2])>>
        /\ op.result = IF calls[1].ok THEN "response" ELSE "null"

\* inline_query.id 'q1', reply('hi')
C8_Witness ==
    /\ op.name = "reply" /\ update_type = "inline"
    /\ op.args = <<"hi", "">>
    /\ Len(calls) = 1 /\ calls[1].ok
    /\ calls[1].params.inline_query_id = "q1"
    /\ calls[1].params.results[1].class = "TelegramInlineQueryResultArticle"
    /\ calls[1].params.results[1].content = "hi"

\* C9: replyPhoto issues exactly one sendPhoto with chat_id and
\* reply_to_message_id on the kinds photo and message, exactly one
\* answerInline with one photo result on the kind inline, and on every other
\* kind returns null without a call.
C9_ReplyPhoto ==
    op.name = "replyPhoto" =>
        IF update_type \in {"photo", "message"}
        THEN /\ Count("sendPhoto") = 1
             /\ calls[1].method = "sendPhoto"
             /\ calls[1].params.chat_id = MessageChat
             /\ calls[1].params.reply_to_message_id = MessageIdStr
             /\ calls[1].params.photo = op.args[1]
             /\ calls[1].params.caption = op.args[2]
             /\ Count("answerInline") = 0
        ELSE IF update_type = "inline"
        THEN /\ Len(calls) = 1
             /\ calls[1].method = "answerInline"
             /\ calls[1].params.inline_query_id = update.inline_query[1].id
             /\ calls[1].params.results =
                   <<TelegramInlineQueryResultPhoto(op.args[1])>>
        ELSE calls = <<>> /\ op.result = "null"

\* a photo sent in reply to a photo
C9_Witness ==
    /\ op.name = "replyPhoto" /\ update_type = "photo"
    /\ Len(calls) = 1 /\ calls[1].method = "sendPhoto" /\ calls[1].ok
    /\ op.result = "response"

\* C10: replyVideo has the shape of replyPhoto: exactly one sendVideo with
\* chat_id and reply_to_message_id on the kinds photo and message, exactly
\* one answerInline with one video result on the kind inline, null without
\* a call on every other kind.
C10_Original ==
    op.name = "replyVideo" =>
        IF update_type \in {"photo", "message"}
        THEN /\ Count("sendVideo") = 1
             /\ calls[1].method = "sendVideo"
             /\ calls[1].params.chat_id = MessageChat
             /\ calls[1].params.reply_to_message_id = MessageIdStr
        ELSE IF update_type = "inline"
        THEN /\ Count("answerInline") = 1
             /\ calls[1].method = "answerInline"
             /\ Len(calls[1].params.results) = 1
             /\ calls[1].params.results[1].class
                   = "TelegramInlineQueryResultVideo"
        ELSE calls = <<>> /\ op.result = "null"

\* the Reply Router operations
RouterOps == {"reply", "replyPhoto", "replyVideo", "sendTyping",
              "replyInline", "answerInlineQuery"}

\* the call failed: the operation issued a first call and it was rejected
PrimaryFailed == calls /= <<>> /\ ~calls[1].ok

\* C11: sendTyping issues exactly one sendChatAction {chat_id, action:
\* 'typing'} on the kinds message, photo and document, exactly one
\* sendChatAction {business_connection_id, chat_id, action: 'typing'} without
\* reply-to message id on the kind business_message, and on every other kind
\* returns null without a call.
C11_SendTyping ==
    op.name = "sendTyping" =>
        IF IsMessageKind(update_type)
        THEN /\ Len(calls) = 1
             /\ calls[1].method = "sendChatAction"
             /\ calls[1].params =
                   [chat_id |-> MessageChat, action |-> "typing"]
        ELSE IF update_type = "business_message"
        THEN /\ Len(calls) = 1
             /\ calls[1].method = "sendChatAction"
             /\ DOMAIN calls[1].params =
                   {"business_connection_id", "chat_id", "action"}
             /\ calls[1].params.business_connection_id =
                   update.business_message[1].business_connection_id
             /\ calls[1].params.chat_id = getChatId(update)
             /\ calls[1].params.chat_id /= ""
             /\ calls[1].params.action = "typing"
        ELSE calls = <<>> /\ op.result = "null"

\* business message of chat 42 with connection 'bc1': one typing action
C11_Witness ==
    /\ op.name = "sendTyping" /\ update_type = "business_message"
    /\ ~MessagePresent
    /\ Len(calls) = 1
    /\ calls[1].params =
          [business_connection_id |-> "bc1", chat_id |-> "42",
           action |-> "typing"]

\* C12: answerInlineQuery(results) issues an answerInline call, with
\* inline_query_id = inline_query.id and the given results, if and only if
\* the kind is inline (and the inline query id is present); otherwise it
\* returns null without a call.
C12_AnswerInlineQuery ==
    op.name = "answerInlineQuery" =>
        IF update_type = "inline" /\ update.inline_query /= Absent
        THEN /\ Len(calls) = 1
             /\ calls[1].method = "answerInline"
             /\ calls[1].params =
                   [inline_query_id |-> update.inline_query[1].id,
                    results |-> op.results]
        ELSE calls = <<>> /\ op.result = "null"

\* an inline query present in an update of another kind: no call
C12_Witness ==
    /\ op.name = "answerInlineQuery"
    /\ update.inline_query /= Absent /\ update_type = "message"
    /\ calls = <<>> /\ op.result = "null"

\* the (operation, kind) pairs the routing table does not support
Unsupported(name, kind) ==
    \/ kind = "" /\ name \in RouterOps
    \/ name \in {"replyPhoto", "replyVideo"}
          /\ kind \in {"document", "callback", "business_message"}
    \/ name = "sendTyping" /\ kind \in {"inline", "callback"}
    \/ name \in {"replyInline", "answerInlineQuery"} /\ kind /= "inline"

\* C13: on a context of kind '' every Reply Router operation, after any
\* other operations, returns null and makes no call; so does every
\* unsupported (operation, kind) pair.
C13_NoOp ==
    /\ (update_type = "" /\ op.name \in RouterOps)
            => calls = <<>> /\ op.result = "null"
    /\ Unsupported(op.name, update_type)
            => calls = <<>> /\ op.result = "null"

\* a reply on an update that holds a message which is neither text, photo
\* nor document
C13_Witness ==
    /\ update_type = "" /\ MessagePresent
    /\ op.name = "reply" /\ calls = <<>> /\ op.result = "null"

\* C14: no Reply Router operation raises: whatever calls fail, it ends and
\* returns the response or null, and null whenever its primary call failed.
C14_NeverRaises ==
    op.name \in RouterOps =>
        /\ op.result \in {"response", "null"}
        /\ PrimaryFailed => op.result = "null"

\* replyPhoto whose sendPhoto and whose notice both failed
C14_Witness ==
    /\ op.name = "replyPhoto" /\ update_type = "photo"
    /\ Len(calls) = 2 /\ ~calls[1].ok /\ ~calls[2].ok
    /\ op.result = "null"

\* C15: when the primary send of reply fails on a message context, exactly
\* one notice sendMessage follows, to the chat id of the failed send, and
\* reply returns null whether the notice succeeds or fails.
C15_ReplyDegraded ==
    (op.name = "reply" /\ update_type = "message" /\ PrimaryFailed) =>
        /\ Len(calls) = 2
        /\ calls[2].method = "sendMessage"
        /\ calls[2].params =
              [chat_id |-> calls[1].params.chat_id,
               text |-> ReplyFailedNotice, parse_mode |-> ""]
        /\ calls[2].params.chat_id = MessageChat
        /\ op.result = "null"

\* the notice failed as well
C15_Witness ==
    /\ op.name = "reply" /\ update_type = "message"
    /\ Len(calls) = 2 /\ ~calls[1].ok /\ ~calls[2].ok
    /\ calls[2].params.text = ReplyFailedNotice
    /\ op.result = "null"

\* the calls that follow the primary call
Notices == SubSeq(calls, 2, Len(calls))

\* C16 as stated: for every Reply Router operation and every kind, a failed
\* primary call is followed by exactly one text notice, through the chat id
\* on message, photo and document, through the business connection id on
\* business_message.
C16_Original ==
    (op.name \in RouterOps /\ PrimaryFailed) =>
        /\ Len(Notices) = 1
        /\ Notices[1].method = "sendMessage"
        /\ IsMessageKind(update_type)
              => Notices[1].params.chat_id = MessageChat
        /\ update_type = "business_message"
              => Has(Notices[1].params, "business_connection_id")

\* the (operation, kind) pairs whose catch block sends a notice
Notifies(name, kind) ==
    \/ name = "reply" /\ kind \in {"message", "photo", "document"}
    \/ name = "replyPhoto" /\ kind \in {"message", "photo"}
    \/ name = "replyVideo" /\ kind = "message"

\* C16 amended: a failed primary call is followed by exactly one text
\* notice to the chat id of the message for reply on message, photo and
\* document, for replyPhoto on message and photo and for replyVideo on
\* message; it is followed by no call at all for sendTyping, replyInline and
\* answerInlineQuery on every kind and for reply, replyPhoto and replyVideo
\* on the kinds business_message, callback and inline.
C16_Notices ==
    (op.name \in RouterOps /\ PrimaryFailed) =>
        IF Notifies(op.name, update_type)
        THEN /\ Len(Notices) = 1
             /\ Notices[1].method = "sendMessage"
             /\ DOMAIN Notices[1].params = {"chat_id", "text", "parse_mode"}
             /\ Notices[1].params.chat_id = MessageChat
             /\ Notices[1].params.text =
                   IF op.name = "reply" THEN ReplyFailedNotice
                   ELSE IF op.name = "replyPhoto" THEN PhotoFailedNotice
                   ELSE VideoFailedNotice
        ELSE Notices = <<>>

\* a failed sendPhoto followed by its notice
C16_Witness ==
    /\ op.name = "replyPhoto" /\ update_type = "message" /\ PrimaryFailed
    /\ Len(Notices) = 1 /\ Notices[1].params.text = PhotoFailedNotice
    /\ Notices[1].ok

\* C17: when the getFile call fails, the notice is attempted first (sent on
\* the kinds that have a chat to address) and the error is then raised to
\* the caller, also when the notice fails; getFile returns normally only
\* when the fetch succeeded.
C17_GetFile ==
    op.name = "getFile" =>
        /\ Len(calls) >= 1
        /\ calls[1].method = "getFile"
        /\ calls[1].params = [file_id |-> op.args[1]]
        /\ calls[1].ok => (Len(calls) = 1 /\ op.result = "response")
        /\ ~calls[1].ok =>
              /\ op.result = "raised"
              /\ (IsMessageKind(update_type)
                    \/ update_type = "business_message")
                    => /\ Len(Notices) = 1
                       /\ Notices[1].method = "sendMessage"
                       /\ Notices[1].params.text = FileFailedNotice
                       /\ Notices[1].params.chat_id = getChatId(update)
              /\ update_type \in {"inline", ""} => Notices = <<>>
        /\ op.result /= "null"

\* on a document context the fetch and the notice both failed
C17_Witness ==
    /\ op.name = "getFile" /\ update_type = "document"
    /\ Len(calls) = 2 /\ ~calls[1].ok /\ ~calls[2].ok
    /\ op.result = "raised"

\* the parameters of the typing action of the context
TypingParams ==
    IF update_type = "business_message"
    THEN [business_connection_id |->
              update.business_message[1].business_connection_id,
          chat_id |-> getChatId(update), action |-> "typing"]
    ELSE [chat_id |-> getChatId(update), action |-> "typing"]

\* C18: sendTyping keeps no state: every call of it on a message, photo,
\* document or business_message context, whatever operation ran before,
\* issues one sendChatAction with the same parameters; in particular a call
\* that follows another sendTyping repeats its parameters.
C18_TypingNoDedup ==
    [][(op'.name = "sendTyping"
          /\ (IsMessageKind(update_type)
                \/ update_type = "business_message"))
       => /\ Len(calls') = 1
          /\ calls'[1].method = "sendChatAction"
          /\ calls'[1].params = TypingParams
          /\ op.name = "sendTyping"
                => calls'[1].params = calls[1].params]_vars

\* a typing action issued on a photo context
C18_Witness ==
    /\ op.name = "sendTyping" /\ update_type = "photo"
    /\ Len(calls) = 1 /\ calls[1].params = TypingParams

\* the parameters a direct send must carry whatever the options hold: the
\* routing fields of the context and the payload arguments of the call
DirectFields ==
    Spread([chat_id |-> MessageChat, reply_to_message_id |-> MessageIdStr],
           CASE op.name = "reply" ->
                    [text |-> op.args[1], parse_mode |-> op.args[2]]
             [] op.name = "replyPhoto" ->
                    [photo |-> op.args[1], caption |-> op.args[2]]
             [] op.name = "replyVideo" -> [video |-> op.args[1]]
             [] OTHER -> NoParams)

\* C25: the direct send that reply, replyPhoto or replyVideo issues on a
\* message, photo or document context carries the chat id and message id
\* of the context and the payload arguments of the call, also when the
\* options name the same keys; the options only add the keys it has not.
C25_OptionsNeverRoute ==
    (op.name \in {"reply", "replyPhoto", "replyVideo"}
        /\ IsMessageKind(update_type) /\ calls /= <<>>) =>
        /\ calls[1].method = CASE op.name = "reply" -> "sendMessage"
                               [] op.name = "replyPhoto" -> "sendPhoto"
                               [] OTHER -> "sendVideo"
        /\ \A k \in DOMAIN DirectFields :
              Has(calls[1].params, k) /\ calls[1].params[k] = DirectFields[k]
        /\ \A k \in DOMAIN op.options \ DOMAIN DirectFields :
              Has(calls[1].params, k) /\ calls[1].params[k] = op.options[k]

\* replyPhoto on a photo context with options that name chat_id,
\* reply_to_message_id, photo and caption
C25_Witness ==
    /\ op.name = "replyPhoto" /\ update_type = "photo"
    /\ {"chat_id", "reply_to_message_id", "photo", "caption"}
            \subseteq DOMAIN op.options
    /\ calls /= <<>>
    /\ calls[1].params.chat_id = MessageChat
    /\ calls[1].params.chat_id /= op.options.chat_id

(* ------------------------------- worker -------------------------------- *)
(* The webhook worker around the context.  A request is served in two      *)
(* steps: Receive builds the context for the inbound update and selects    *)
(* the handler, and the handler then runs to its end.  A handler is the    *)
(* set of its runs: one run per outcome of the external calls it makes     *)
(* (Telegram, DeepSeek, Workers AI, image API, D1).  A run lists the       *)
(* events of the handler in order, the Telegram API calls issued, and      *)
(* whether it ended by throwing.                                           *)
(*                                                                         *)
(* A row of the messages table is [id, chat_id, role, created_at]; the     *)
(* content column is never read by a statement that decides anything and   *)
(* is left out.  The clock counts seconds; every Date.now() reading of an  *)
(* INSERT is later than the one before it, so created_at is unique.        *)
(***************************************************************************)

\* DB_CONFIG
MAX_MESSAGES_PER_CHAT == 20
CLEANUP_THRESHOLD == 100
MESSAGE_EXPIRY_DAYS == 30

\* MESSAGE_EXPIRY_DAYS * 24 * 60 * 60 * 1000 ms, in seconds
ExpiryPeriod == MESSAGE_EXPIRY_DAYS * 24 * 60 * 60

\* requests are taken while fewer than MaxRows rows were ever inserted
\* (SpecWorker) or fewer than CLEANUP_THRESHOLD + 4 * MaxRows (SpecStore);
\* the clock jumps by one expiry period at most MaxJumps times
MaxRows == 1
MaxJumps == 1

(* runs *)

Run(ev, cs, exc) == [ev |-> ev, calls |-> cs, exc |-> exc]

\* nothing happens
Skip == {Run(<<>>, <<>>, FALSE)}
\* a step that cannot fail
Event(e) == {Run(<<e>>, <<>>, FALSE)}
\* an awaited external call: it returns, or (when faults are on) it throws
MayFail(e, efail, faulty) ==
    {Run(<<e>>, <<>>, FALSE)}
        \cup (IF faulty THEN {Run(<<efail>>, <<>>, TRUE)} ELSE {})
\* R; S
Then(R, S) ==
    {r \in R : r.exc}
        \cup {Run(r.ev \o s.ev, r.calls \o s.calls, s.exc) :
                r \in {x \in R : ~x.exc}, s \in S}
\* variant: the catch block is missing, what R throws escapes
Catch_Rethrows(R, H) == R

\* try { R } catch { H }
Catch(R, H) ==
    {r \in R : ~r.exc}
        \cup {Run(r.ev \o h.ev, r.calls \o h.calls, h.exc) :
                r \in {x \in R : x.exc}, h \in H}

\* the failure flags of one Telegram call
Faults(faulty) == IF faulty THEN BOOLEAN ELSE {FALSE}

\* await bot.reply(text, parse_mode)
Say(e, text, parse_mode, faulty) ==
    {LET out == reply(text, parse_mode, NoParams, f1, f2) IN
        Run(<<e>>, out.calls, out.result = "raised") :
            f1 \in Faults(faulty), f2 \in Faults(faulty)}

\* await bot.replyPhoto(url)
SayPhoto(e, url, faulty) ==
    {LET out == replyPhoto(url, "", NoParams, f1, f2) IN
        Run(<<e>>, out.calls, out.result = "raised") :
            f1 \in Faults(faulty), f2 \in Faults(faulty)}

\* await bot.getFile(fileId)
AskFile(e, file_id, faulty) ==
    {LET out == getFile(file_id, f1, f2) IN
        Run(<<e>>, out.calls, out.result = "raised") :
            f1 \in Faults(faulty), f2 \in Faults(faulty)}

(* the messages table *)

RowsOf(d, chat) == SelectSeq(d, LAMBDA r : r.chat_id = chat)
ChatsOf(d) == {d[i].chat_id : i \in 1..Len(d)}

\* saveMessage: INSERT with the next AUTOINCREMENT id and Date.now()
saveMessage(s, chat, role) ==
    [s EXCEPT !.db = Append(s.db, [id |-> s.lastId + 1, chat_id |-> chat,
                                   role |-> role, created_at |-> s.now]),
              !.lastId = s.lastId + 1,
              !.now = s.now + 1]

\* DELETE FROM messages WHERE chat_id = ?
clearChat(s, chat) ==
    [s EXCEPT !.db = SelectSeq(s.db, LAMBDA r : r.chat_id /= chat)]

\* ORDER BY created_at DESC LIMIT n over the rows of the set S
RECURSIVE OrderDescLimit(_, _)
OrderDescLimit(S, n) ==
    IF n = 0 \/ S = {} THEN <<>>
    ELSE LET m == CHOOSE r \in S : \A q \in S : r.created_at >= q.created_at
         IN <<m>> \o OrderDescLimit(S \ {m}, n - 1)

\* ORDER BY created_at ASC LIMIT n over the rows of the set S
RECURSIVE OrderAscLimit(_, _)
OrderAscLimit(S, n) ==
    IF n = 0 \/ S = {} THEN <<>>
    ELSE LET m == CHOOSE r \in S : \A q \in S : r.created_at <= q.created_at
         IN <<m>> \o OrderAscLimit(S \ {m}, n - 1)

\* variant: the newest rows are selected (ORDER BY created_at DESC)
getChatHistory_Newest(d, chat) ==
    LET rs == RowsOf(d, chat) IN
    OrderDescLimit({rs[i] : i \in 1..Len(rs)}, MAX_MESSAGES_PER_CHAT)

\* getChatHistory: the rows of WHERE chat_id = ? ORDER BY created_at ASC
\* LIMIT 20, in that order
getChatHistory(d, chat) ==
    LET rs == RowsOf(d, chat) IN
    OrderAscLimit({rs[i] : i \in 1..Len(rs)}, MAX_MESSAGES_PER_CHAT)

\* variant: the keep list is ordered ASC, the oldest rows are kept
keepMessageIds_Oldest(d, chat) ==
    LET rs == RowsOf(d, chat) IN
    {rs[i].id : i \in {j \in 1..Len(rs) :
        Cardinality({k \in 1..Len(rs) :
            rs[k].created_at < rs[j].created_at}) < MAX_MESSAGES_PER_CHAT}}

\* the ids of ORDER BY created_at DESC LIMIT 20
keepMessageIds(d, chat) ==
    LET rs == RowsOf(d, chat) IN
    {rs[i].id : i \in {j \in 1..Len(rs) :
        Cardinality({k \in 1..Len(rs) :
            rs[k].created_at > rs[j].created_at}) < MAX_MESSAGES_PER_CHAT}}

\* the loop body for the chats of S: DELETE ... id NOT IN (keep list)
trimChats(d, S) ==
    SelectSeq(d, LAMBDA r :
        r.chat_id \in S => r.id \in keepMessageIds(d, r.chat_id))

\* DELETE FROM messages WHERE created_at < expiryTimestamp
deleteExpired(d, t) ==
    SelectSeq(d, LAMBDA r : ~(r.created_at < t - ExpiryPeriod))

\* GROUP BY chat_id HAVING message_count > CLEANUP_THRESHOLD
chatCounts(d) ==
    {c \in ChatsOf(d) : Len(RowsOf(d, c)) > CLEANUP_THRESHOLD}

\* the tables cleanupOldMessages may leave: the whole body ran, or (when
\* faults are on) a statement threw and the rest was skipped
cleanupOldMessages(d, t, faulty) ==
    LET d1 == deleteExpired(d, t) IN
    {trimChats(d1, chatCounts(d1))}
        \cup (IF faulty
              THEN {d, d1} \cup {trimChats(d1, S) : S \in SUBSET chatCounts(d1)}
              ELSE {})

\* the effects of the events of a run on the worker's state
RECURSIVE Effects(_, _, _)
Effects(s, ev, chat) ==
    IF ev = <<>> THEN s
    ELSE LET e == Head(ev)
             s1 == CASE e = "insert:user" -> saveMessage(s, chat, "user")
                      [] e = "insert:assistant" ->
                            saveMessage(s, chat, "assistant")
                      [] e = "clear" -> clearChat(s, chat)
                      [] e = "flag:on" -> [s EXCEPT !.flag = TRUE]
                      [] e = "flag:off" -> [s EXCEPT !.flag = FALSE]
                      [] e = "cleanup" -> [s EXCEPT !.pending = s.pending + 1]
                      [] OTHER -> s
         IN Effects(s1, Tail(ev), chat)

\* const history = await getChatHistory(env.DB, chatId): what the run r of
\* the message handler read, if it got that far and the query succeeded
HistoryRead(r) ==
    IF \E i \in 1..Len(r.ev) : r.ev[i] = "history"
    THEN getChatHistory(db, req.chat) ELSE <<>>

\* the worker's state after the run r of the handler of the request
After(r) ==
    Effects([db |-> db, lastId |-> lastId, now |-> now,
             flag |-> showThinkingProcess, pending |-> pending],
            r.ev, req.chat)

(* inbound updates and dispatch *)

\* message texts: plain text, the registered commands with and without a
\* prompt, and a command nobody registered
WorkerTexts == {"hello", "/code", "/code sort", "/p", "/p cat", "/clear",
                "/dd", "/cc", "/epoch", "/start", "/foo"}

\* the command keyword of a text: its first token without the slash, ""
\* for a text that does not start with a slash
Keyword(t) ==
    CASE t \in {"/code", "/code sort"} -> "code"
      [] t \in {"/p", "/p cat"} -> "p"
      [] t = "/clear" -> "clear"
      [] t = "/dd" -> "dd"
      [] t = "/cc" -> "cc"
      [] t = "/epoch" -> "epoch"
      [] t = "/start" -> "start"
      [] t = "/foo" -> "foo"
      [] OTHER -> ""

\* text.replace('/' + keyword, '').trim()
Prompt(t) ==
    CASE t = "/code sort" -> "sort"
      [] t = "/p cat" -> "cat"
      [] Keyword(t) /= "" -> ""
      [] OTHER -> t

NoUpdate == [message |-> Absent, inline_query |-> Absent,
             callback_query |-> Absent, business_message |-> Absent]

TextUpdate(c, t) ==
    [NoUpdate EXCEPT !.message =
        Some([chat_id |-> c, message_id |-> 6 + MaxMsg, photo |-> FALSE,
              text |-> Some(t), document |-> FALSE])]

DocumentUpdate(c) ==
    [NoUpdate EXCEPT !.message =
        Some([chat_id |-> c, message_id |-> 6 + MaxMsg, photo |-> FALSE,
              text |-> Absent, document |-> TRUE])]

\* updates of the kinds no handler is registered for
OtherUpdates ==
    {u \in Updates : determineUpdateType(u) \notin {"message", "document"}
                     /\ Cardinality({f \in DOMAIN u : u[f] /= Absent}) <= 1}

\* the chat whose history grows; the other chats stay short
HotChat == CHOOSE c \in ChatIds : \A d \in ChatIds : c <= d

\* the names given to bot.on
Registered == {"document", "epoch", "start", "dd", "cc", "clear", "code",
               "p", "message"}

\* the handler of an update: by command keyword for a text that starts
\* with a slash, by kind otherwise; "" when none is registered
HandlerOf(u) ==
    LET kind == determineUpdateType(u)
        key == IF kind = "message" /\ Keyword(u.message[1].text[1]) /= ""
               THEN Keyword(u.message[1].text[1]) ELSE kind
    IN IF key \in Registered THEN key ELSE ""

\* bot.update.message?.text
HasText == update.message /= Absent /\ TruthyStr(update.message[1].text)

\* bot.update.message?.document?.file_id
DocumentFileId ==
    IF update.message /= Absent /\ update.message[1].document
    THEN Some("file1") ELSE Absent

(* handlers *)

SaveUser(faulty) == MayFail("insert:user", "insert:user:fail", faulty)
SaveAssistant(faulty) ==
    MayFail("insert:assistant", "insert:assistant:fail", faulty)

documentHandler(faulty) ==
    Catch(IF ~TruthyStr(DocumentFileId)
          THEN Say("reply:no-file", "no-file", "HTML", faulty)
          ELSE Then(AskFile("getFile", DocumentFileId[1], faulty),
               Then(MayFail("file-path", "file-path:fail", faulty),
                    Say("reply:file-url", "file-url", "HTML", faulty))),
          Say("reply:handler-error", "file-error", "HTML", faulty))

epochHandler(faulty) ==
    Catch(IF HasText THEN Say("reply:epoch", "epoch", "HTML", faulty)
          ELSE Skip,
          Say("reply:handler-error", "command-error", "HTML", faulty))

startHandler(faulty) ==
    Catch(IF HasText THEN Say("reply:start", "start", "HTML", faulty)
          ELSE Skip,
          Say("reply:handler-error", "command-error", "HTML", faulty))

ddHandler(faulty) ==
    Catch(IF HasText
          THEN Then(Event("flag:off"),
                    Say("reply:flag", "thinking-off", "HTML", faulty))
          ELSE Skip,
          Say("reply:handler-error", "command-error", "HTML", faulty))

ccHandler(faulty) ==
    Catch(IF HasText
          THEN Then(Event("flag:on"),
                    Say("reply:flag", "thinking-on", "HTML", faulty))
          ELSE Skip,
          Say("reply:handler-error", "command-error", "HTML", faulty))

clearHandler(faulty) ==
    Catch(IF HasText
          THEN Then(MayFail("clear", "clear:fail", faulty),
                    Say("reply:cleared", "cleared", "HTML", faulty))
          ELSE Skip,
          Say("reply:handler-error", "clear-error", "HTML", faulty))

codeHandler(faulty) ==
    Catch(IF HasText
          THEN IF ~TruthyStr(Some(Prompt(req.text)))
               THEN Say("reply:usage", "code-usage", "HTML", faulty)
               ELSE Then(Say("reply:thinking", "thinking", "HTML", faulty),
                    Then(MayFail("coder", "coder:fail", faulty),
                    Then(SaveUser(faulty),
                    Then(SaveAssistant(faulty),
                         Say("reply:code", "code", "Markdown", faulty)))))
          ELSE Skip,
          Say("reply:handler-error", "code-error", "HTML", faulty))

\* extractImageUrlFromStableDiffusion, then if (imageUrl) replyPhoto
stableDiffusionUrl(faulty) ==
    Then(Event("sd:url"), SayPhoto("photo:sd", "sd-url", faulty))
        \cup Then(Event("sd:no-url"),
                  Catch(Say("reply:no-url", "no-url", "HTML", faulty), Skip))

\* the image API answered with a URL, or (a fault) without one
imageApi(faulty) ==
    Then(MayFail("image-api", "image-api:fail", faulty),
         SayPhoto("photo:image-api", "image-url", faulty)
            \cup (IF faulty THEN {Run(<<"image-api:no-url">>, <<>>, TRUE)}
                  ELSE {}))

pHandler(faulty) ==
    Catch(IF HasText
          THEN IF ~TruthyStr(Some(Prompt(req.text)))
               THEN Say("reply:usage", "p-usage", "HTML", faulty)
               ELSE Then(Say("reply:generating", "generating", "HTML", faulty),
                         Catch(imageApi(faulty),
                               Catch(Then(MayFail("sd", "sd:fail", faulty),
                                          stableDiffusionUrl(faulty)),
                                     Say("reply:cannot-generate",
                                         "cannot-generate", "HTML", faulty))))
          ELSE Skip,
          Say("reply:handler-error", "p-error", "HTML", faulty))

\* callDeepSeekAPI, extractThinkingProcess, the two saves and the replies;
\* the response holds a think section or not
deepSeekPath(faulty, show) ==
    UNION {Then(Event(IF think THEN "deepseek:think" ELSE "deepseek:plain"),
           Then(SaveUser(faulty),
           Then(SaveAssistant(faulty),
           Then(IF show /\ think
                THEN Say("reply:thinking-block", "thinking-block",
                         "Markdown", faulty)
                ELSE Skip,
                Say("reply:final", "final", "Markdown", faulty))))) :
           think \in BOOLEAN}
        \cup (IF faulty THEN {Run(<<"deepseek:fail">>, <<>>, TRUE)} ELSE {})

llamaPath(faulty) ==
    Then(MayFail("llama", "llama:fail", faulty),
    Then(SaveUser(faulty),
    Then(SaveAssistant(faulty),
         Say("reply:llama", "llama", "Markdown", faulty))))

\* variant: the LLAMA fallback is not inside the catch block, it runs after
\* the DeepSeek path whether that raised or not
messageHandler_AlwaysFallback(faulty, show) ==
    Catch(IF HasText
          THEN Then(Say("reply:thinking", "thinking", "HTML", faulty),
               Then(MayFail("history", "history:fail", faulty),
               Then(Catch(deepSeekPath(faulty, show), Skip),
               Then(Catch(llamaPath(faulty),
                          Say("reply:cannot-answer", "cannot-answer",
                              "HTML", faulty)),
                    Event("cleanup")))))
          ELSE Skip,
          Say("reply:handler-error", "message-error", "HTML", faulty))

\* the message handler up to its await of callDeepSeekAPI
messageHead(faulty) ==
    Then(Say("reply:thinking", "thinking", "HTML", faulty),
         MayFail("history", "history:fail", faulty))

\* the message handler from the outcome of callDeepSeekAPI on; show is the
\* value of showThinkingProcess when it runs
messageTail(faulty, show) ==
    Then(Catch(deepSeekPath(faulty, show),
               Catch(llamaPath(faulty),
                     Say("reply:cannot-answer", "cannot-answer",
                         "HTML", faulty))),
         Event("cleanup"))

messageError(faulty) ==
    Say("reply:handler-error", "message-error", "HTML", faulty)

messageHandler(faulty, show) ==
    Catch(IF HasText
          THEN Then(messageHead(faulty), messageTail(faulty, show))
          ELSE Skip,
          messageError(faulty))

\* the status of the response of fetch: the handler's 'ok', or the 500 of
\* the catch around handleUpdate
StatusOf(r) == IF r.exc THEN 500 ELSE 200

(* worker actions *)

MaxPending == 1

\* fetch up to the dispatch: the context of the inbound update is built and
\* the handler selected; budget bounds the rows inserted so far
Fetch(U, budget) ==
    /\ req.stage \in {"idle", "done", "suspended"}
    /\ lastId < budget
    /\ pending < MaxPending
    /\ \E u \in U :
        /\ update' = u
        /\ update_type' = determineUpdateType(u)
        /\ op' = NoOp
        /\ calls' = <<>>
        /\ req' = [stage |-> "handling", handler |-> HandlerOf(u),
                   chat |-> IF u.message = Absent THEN ""
                            ELSE ToString(u.message[1].chat_id),
                   text |-> IF u.message = Absent
                               \/ u.message[1].text = Absent THEN ""
                            ELSE u.message[1].text[1],
                   ev |-> <<>>, history |-> <<>>, status |-> 0]
    /\ UNCHANGED <<bot, db, lastId, now, showThinkingProcess, pending, waiting>>

\* no handler is registered for the update: the response is 'ok'
NoHandler ==
    /\ req.stage = "handling"
    /\ req.handler = ""
    /\ req' = [req EXCEPT !.stage = "done", !.status = 200]
    /\ UNCHANGED <<bot, update, update_type, op, calls,
                   db, lastId, now, showThinkingProcess, pending, waiting>>

OnDocument(faulty) ==
    /\ req.stage = "handling"
    /\ req.handler = "document"
    /\ \E r \in documentHandler(faulty) :
        LET s == After(r) IN
        /\ db' = s.db
        /\ lastId' = s.lastId
        /\ now' = s.now
        /\ showThinkingProcess' = s.flag
        /\ pending' = s.pending
        /\ calls' = r.calls
        /\ req' = [req EXCEPT !.stage = "done", !.ev = r.ev,
                              !.status = StatusOf(r)]
    /\ UNCHANGED <<bot, update, update_type, op, waiting>>

OnEpoch(faulty) ==
    /\ req.stage = "handling"
    /\ req.handler = "epoch"
    /\ \E r \in epochHandler(faulty) :
        LET s == After(r) IN
        /\ db' = s.db
        /\ lastId' = s.lastId
        /\ now' = s.now
        /\ showThinkingProcess' = s.flag
        /\ pending' = s.pending
        /\ calls' = r.calls
        /\ req' = [req EXCEPT !.stage = "done", !.ev = r.ev,
                              !.status = StatusOf(r)]
    /\ UNCHANGED <<bot, update, update_type, op, waiting>>

OnStart(faulty) ==
    /\ req.stage = "handling"
    /\ req.handler = "start"
    /\ \E r \in startHandler(faulty) :
        LET s == After(r) IN
        /\ db' = s.db
        /\ lastId' = s.lastId
        /\ now' = s.now
        /\ showThinkingProcess' = s.flag
        /\ pending' = s.pending
        /\ calls' = r.calls
        /\ req' = [req EXCEPT !.stage = "done", !.ev = r.ev,
                              !.status = StatusOf(r)]
    /\ UNCHANGED <<bot, update, update_type, op, waiting>>

OnDd(faulty) ==
    /\ req.stage = "handling"
    /\ req.handler = "dd"
    /\ \E r \in ddHandler(faulty) :
        LET s == After(r) IN
        /\ db' = s.db
        /\ lastId' = s.lastId
        /\ now' = s.now
        /\ showThinkingProcess' = s.flag
        /\ pending' = s.pending
        /\ calls' = r.calls
        /\ req' = [req EXCEPT !.stage = "done", !.ev = r.ev,
                              !.status = StatusOf(r)]
    /\ UNCHANGED <<bot, update, update_type, op, waiting>>

OnCc(faulty) ==
    /\ req.stage = "handling"
    /\ req.handler = "cc"
    /\ \E r \in ccHandler(faulty) :
        LET s == After(r) IN
        /\ db' = s.db
        /\ lastId' = s.lastId
        /\ now' = s.now
        /\ showThinkingProcess' = s.flag
        /\ pending' = s.pending
        /\ calls' = r.calls
        /\ req' = [req EXCEPT !.stage = "done", !.ev = r.ev,
                              !.status = StatusOf(r)]
    /\ UNCHANGED <<bot, update, update_type, op, waiting>>

OnClear(faulty) ==
    /\ req.stage = "handling"
    /\ req.handler = "clear"
    /\ \E r \in clearHandler(faulty) :
        LET s == After(r) IN
        /\ db' = s.db
        /\ lastId' = s.lastId
        /\ now' = s.now
        /\ showThinkingProcess' = s.flag
        /\ pending' = s.pending
        /\ calls' = r.calls
        /\ req' = [req EXCEPT !.stage = "done", !.ev = r.ev,
                              !.status = StatusOf(r)]
    /\ UNCHANGED <<bot, update, update_type, op, waiting>>

OnCode(faulty) ==
    /\ req.stage = "handling"
    /\ req.handler = "code"
    /\ \E r \in codeHandler(faulty) :
        LET s == After(r) IN
        /\ db' = s.db
        /\ lastId' = s.lastId
        /\ now' = s.now
        /\ showThinkingProcess' = s.flag
        /\ pending' = s.pending
        /\ calls' = r.calls
        /\ req' = [req EXCEPT !.stage = "done", !.ev = r.ev,
                              !.status = StatusOf(r)]
    /\ UNCHANGED <<bot, update, update_type, op, waiting>>

OnP(faulty) ==
    /\ req.stage = "handling"
    /\ req.handler = "p"
    /\ \E r \in pHandler(faulty) :
        LET s == After(r) IN
        /\ db' = s.db
        /\ lastId' = s.lastId
        /\ now' = s.now
        /\ showThinkingProcess' = s.flag
        /\ pending' = s.pending
        /\ calls' = r.calls
        /\ req' = [req EXCEPT !.stage = "done", !.ev = r.ev,
                              !.status = StatusOf(r)]
    /\ UNCHANGED <<bot, update, update_type, op, waiting>>

OnMessage(faulty) ==
    /\ req.stage = "handling"
    /\ req.handler = "message"
    /\ \E r \in messageHandler(faulty, showThinkingProcess) :
        LET s == After(r) IN
        /\ db' = s.db
        /\ lastId' = s.lastId
        /\ now' = s.now
        /\ showThinkingProcess' = s.flag
        /\ pending' = s.pending
        /\ calls' = r.calls
        /\ req' = [req EXCEPT !.stage = "done", !.ev = r.ev,
                              !.history = HistoryRead(r),
                              !.status = StatusOf(r)]
    /\ UNCHANGED <<bot, update, update_type, op, waiting>>

\* a cleanup handed to ctx.waitUntil runs
Cleanup(faulty) ==
    /\ pending > 0
    /\ \E d \in cleanupOldMessages(db, now, faulty) : db' = d
    /\ pending' = pending - 1
    /\ UNCHANGED <<bot, update, update_type, op, calls,
                   lastId, now, showThinkingProcess, req, waiting>>

\* one expiry period passes
Tick ==
    /\ now - lastId < MaxJumps * ExpiryPeriod
    /\ now' = now + ExpiryPeriod
    /\ UNCHANGED <<bot, update, update_type, op, calls,
                   db, lastId, showThinkingProcess, pending, req, waiting>>

\* the worker before its first request
InitWorker ==
    /\ bot \in Bots
    /\ update = NoUpdate
    /\ update_type = determineUpdateType(NoUpdate)
    /\ op = NoOp
    /\ calls = <<>>
    /\ WorkerStart

\* every update, every failure pattern, short histories
WorkerUpdates ==
    {TextUpdate(c, t) : c \in ChatIds, t \in WorkerTexts}
        \cup {DocumentUpdate(c) : c \in ChatIds} \cup OtherUpdates

NextWorker ==
    \/ Fetch(WorkerUpdates, MaxRows)
    \/ NoHandler
    \/ OnDocument(TRUE)
    \/ OnEpoch(TRUE)
    \/ OnStart(TRUE)
    \/ OnDd(TRUE)
    \/ OnCc(TRUE)
    \/ OnClear(TRUE)
    \/ OnCode(TRUE)
    \/ OnP(TRUE)
    \/ OnMessage(TRUE)
    \/ Cleanup(TRUE)
    \/ Tick

SpecWorker == InitWorker /\ [][NextWorker]_vars

\* the requests that save messages, no failures, long histories: the
\* chats other than HotChat write among the first requests only, and the
\* clock jumps among the first requests only
StoreUpdates ==
    {TextUpdate(c, t) : c \in {d \in ChatIds :
                                d = HotChat \/ lastId < 2 * MaxRows},
                        t \in {"hello", "/code sort"}}

NextStore ==
    \/ Fetch(StoreUpdates, CLEANUP_THRESHOLD + 4 * MaxRows)
    \/ OnCode(FALSE)
    \/ OnMessage(FALSE)
    \/ Cleanup(FALSE)
    \/ (lastId <= MaxRows + 1 /\ Tick)

SpecStore == InitWorker /\ [][NextStore]_vars

(* two requests in flight *)
(* callDeepSeekAPI is the await of the message handler at which another    *)
(* request is served meanwhile: the handler runs up to it and is           *)
(* suspended with its context, other requests are fetched and handled,     *)
(* and when the DeepSeek outcome arrives the handler goes on from there.   *)

\* noted at the await for the properties: the flag when the handler was
\* suspended
AwaitEvents == {"await:flag-on", "await:flag-off"}

\* the message handler up to callDeepSeekAPI: it is suspended there, or it
\* has ended in its catch block
OnMessageStart(faulty) ==
    /\ req.stage = "handling"
    /\ req.handler = "message"
    /\ HasText
    /\ waiting = NoWaiting
    /\ \E r \in Catch(Then(messageHead(faulty),
                           Event(IF showThinkingProcess THEN "await:flag-on"
                                 ELSE "await:flag-off")),
                      messageError(faulty)) :
        LET parked == r.ev[Len(r.ev)] \in AwaitEvents
            rq == [req EXCEPT !.stage = IF parked THEN "suspended" ELSE "done",
                              !.ev = r.ev,
                              !.history = HistoryRead(r),
                              !.status = IF parked THEN 0 ELSE StatusOf(r)]
        IN /\ calls' = r.calls
           /\ req' = rq
           /\ waiting' = IF parked
                         THEN <<[update |-> update, update_type |-> update_type,
                                 calls |-> r.calls, req |-> rq]>>
                         ELSE NoWaiting
    /\ UNCHANGED <<bot, update, update_type, op,
                   db, lastId, now, showThinkingProcess, pending>>

\* the outcome of callDeepSeekAPI arrives: the suspended handler is the one
\* that runs next
DeepSeekReturns ==
    /\ waiting /= NoWaiting
    /\ req.stage \in {"idle", "done", "suspended"}
    /\ update' = waiting[1].update
    /\ update_type' = waiting[1].update_type
    /\ calls' = waiting[1].calls
    /\ req' = [waiting[1].req EXCEPT !.stage = "resumed"]
    /\ waiting' = NoWaiting
    /\ UNCHANGED <<bot, op, db, lastId, now, showThinkingProcess, pending>>

\* variant: the flag is read once, when the handler starts
OnMessageRest_FlagAtStart(faulty) ==
    /\ req.stage = "resumed"
    /\ \E r \in Catch(messageTail(faulty, "await:flag-on" \in
                                    {req.ev[i] : i \in 1..Len(req.ev)}),
                      messageError(faulty)) :
        LET s == After(r) IN
        /\ db' = s.db
        /\ lastId' = s.lastId
        /\ now' = s.now
        /\ showThinkingProcess' = s.flag
        /\ pending' = s.pending
        /\ calls' = calls \o r.calls
        /\ req' = [req EXCEPT !.stage = "done", !.ev = req.ev \o r.ev,
                              !.status = StatusOf(r)]
    /\ UNCHANGED <<bot, update, update_type, op, waiting>>

\* the message handler from the outcome of callDeepSeekAPI to its end
OnMessageRest(faulty) ==
    /\ req.stage = "resumed"
    /\ \E r \in Catch(messageTail(faulty, showThinkingProcess),
                      messageError(faulty)) :
        LET s == After(r) IN
        /\ db' = s.db
        /\ lastId' = s.lastId
        /\ now' = s.now
        /\ showThinkingProcess' = s.flag
        /\ pending' = s.pending
        /\ calls' = calls \o r.calls
        /\ req' = [req EXCEPT !.stage = "done", !.ev = req.ev \o r.ev,
                              !.status = StatusOf(r)]
    /\ UNCHANGED <<bot, update, update_type, op, waiting>>

\* text messages and the two flag commands, every failure pattern
FlagUpdates ==
    {TextUpdate(c, t) : c \in ChatIds, t \in {"hello", "/cc", "/dd"}}

NextFlag ==
    \/ Fetch(FlagUpdates, MaxRows)
    \/ OnDd(TRUE)
    \/ OnCc(TRUE)
    \/ OnMessageStart(TRUE)
    \/ DeepSeekReturns
    \/ OnMessageRest(TRUE)
    \/ Cleanup(TRUE)

SpecFlag == InitWorker /\ [][NextFlag]_vars

(* ------------------------- properties: worker -------------------------- *)

Events(r) == {r.ev[i] : i \in 1..Len(r.ev)}

\* C19: whatever update came in and whichever of the Telegram, AI,
\* image-API and database calls failed while it was handled, the response
\* of fetch to a handled request has status 200
C19_AlwaysOk == req.stage = "done" => req.status = 200

\* a text message for which DeepSeek and LLAMA both failed and the notice
\* could not be sent either, answered with 200
C19_Witness ==
    /\ req.stage = "done"
    /\ req.handler = "message"
    /\ {"deepseek:fail", "llama:fail", "reply:cannot-answer"}
            \subseteq Events(req)
    /\ \E i \in 1..Len(calls) : ~calls[i].ok
    /\ req.status = 200

\* C20 as stated: every chat holds at most MAX_MESSAGES_PER_CHAT rows
C20_Original ==
    \A c \in ChatsOf(db) : Len(RowsOf(db, c)) <= MAX_MESSAGES_PER_CHAT

\* the positions of the events of S in the run of the request
At(S) == {i \in 1..Len(req.ev) : req.ev[i] \in S}

\* a call of the DeepSeek path or of the LLAMA path that raised
PathRaised == {"deepseek:fail", "llama:fail", "insert:user:fail",
               "insert:assistant:fail"}

\* C21: in the message handler LLAMA is invoked only right after a call of
\* the DeepSeek path raised, the 'cannot answer' notice is sent only after
\* the DeepSeek path raised, LLAMA was invoked and the LLAMA path raised
\* too, and at most one of the DeepSeek final reply, the LLAMA reply and
\* the notice is sent.
C21_FallbackOrder ==
    (req.stage = "done" /\ req.handler = "message") =>
        /\ \A l \in At({"llama", "llama:fail"}) :
              /\ l - 1 \in At(PathRaised)
              /\ At({"reply:final"}) = {}
        /\ \A n \in At({"reply:cannot-answer"}) :
              /\ n - 1 \in At(PathRaised)
              /\ \E l \in At({"llama", "llama:fail"}) :
                    l < n /\ l - 1 \in At(PathRaised)
              /\ At({"reply:llama"}) = {}
        /\ Cardinality(At({"reply:final", "reply:llama",
                           "reply:cannot-answer"})) <= 1

\* DeepSeek answered but its answer could not be saved, LLAMA answered
C21_Witness ==
    /\ req.stage = "done" /\ req.handler = "message"
    /\ At({"insert:assistant:fail"}) /= {}
    /\ \E l \in At({"llama"}), a \in At({"reply:llama"}) :
          \A f \in At({"insert:assistant:fail"}) : f < l /\ l < a
    /\ At({"reply:final", "reply:cannot-answer"}) = {}

\* the rows of a chat in a table, and those of them that are not older
\* than the expiry period at time t
RowSet(d, c) == {d[i] : i \in {j \in 1..Len(d) : d[j].chat_id = c}}
Unexpired(d, c, t) == {r \in RowSet(d, c) : r.created_at >= t - ExpiryPeriod}

\* C22: a cleanup that runs to its end leaves, of every chat that held more
\* than CLEANUP_THRESHOLD unexpired rows, exactly the MAX_MESSAGES_PER_CHAT
\* unexpired rows with the greatest created_at, and of every other chat
\* exactly its unexpired rows; no expired row remains.
C22_Cleanup ==
    [][pending' < pending =>
        /\ ChatsOf(db') \subseteq ChatsOf(db)
        /\ \A c \in ChatsOf(db) :
            LET U == Unexpired(db, c, now)
                K == RowSet(db', c)
            IN IF Cardinality(U) > CLEANUP_THRESHOLD
               THEN /\ K \subseteq U
                    /\ Cardinality(K) = MAX_MESSAGES_PER_CHAT
                    /\ \A k \in K, u \in U \ K : k.created_at > u.created_at
               ELSE K = U]_vars

\* a cleanup has removed the expired first rows of a chat and trimmed its
\* later rows, more than CLEANUP_THRESHOLD, to the newest
C22_Witness ==
    /\ pending = 0
    /\ now > ExpiryPeriod
    /\ lastId > CLEANUP_THRESHOLD + 2
    /\ LET rs == RowsOf(db, ToString(HotChat)) IN
          /\ Len(rs) = MAX_MESSAGES_PER_CHAT
          /\ \A i \in 1..Len(rs) :
                rs[i].id = lastId - MAX_MESSAGES_PER_CHAT + i

\* the rows of role 'user' in a table
UserRows(d) == {i \in 1..Len(d) : d[i].role = "user"}

\* C23 as stated: handling one text message in the message handler adds at
\* most one row of role 'user' to the table, whatever calls fail
C23_Original ==
    [][(req.stage = "handling" /\ req.handler = "message"
            /\ req'.stage = "done")
        => Cardinality(UserRows(db')) <= Cardinality(UserRows(db)) + 1]_vars

\* the DeepSeek response of the request held a think section and both
\* saves succeeded
ThinkSaved(ev) ==
    \E i \in 1..(Len(ev) - 2) :
        /\ ev[i] = "deepseek:think"
        /\ ev[i + 1] = "insert:user"
        /\ ev[i + 2] = "insert:assistant"

\* C24: a message request sends the thinking block exactly if
\* showThinkingProcess is true when the request goes on after the DeepSeek
\* response (and the response holds a think section and was saved),
\* whatever the flag was when the request started: a /cc or /dd handled
\* while the request was suspended decides.
C24_FlagAtReplyTime ==
    [][(req.stage = "resumed" /\ req'.stage = "done") =>
        ("reply:thinking-block" \in Events(req')
            <=> (showThinkingProcess /\ ThinkSaved(req'.ev)))]_vars

\* a message request that started with the flag off and sent the thinking
\* block, a /cc having been handled while it was suspended
C24_Witness ==
    /\ req.stage = "done" /\ req.handler = "message"
    /\ "await:flag-off" \in Events(req)
    /\ "reply:thinking-block" \in Events(req)

\* C26: the history the message handler reads holds at most
\* MAX_MESSAGES_PER_CHAT rows, all of them rows of the chat of the request,
\* in ascending order of created_at, and they are the rows of the chat
\* with the smallest created_at; so when the chat holds more than
\* MAX_MESSAGES_PER_CHAT rows the rows saved last are not in it.
C26_History ==
    [][(req.stage = "handling" /\ req.handler = "message"
            /\ req'.stage = "done" /\ "history" \in Events(req')) =>
        LET h == req'.history
            H == {h[i] : i \in 1..Len(h)}
            R == RowSet(db, req.chat)
        IN /\ Len(h) <= MAX_MESSAGES_PER_CHAT
           /\ H \subseteq R
           /\ Cardinality(H) = Len(h)
           /\ Len(h) = IF Cardinality(R) < MAX_MESSAGES_PER_CHAT
                       THEN Cardinality(R) ELSE MAX_MESSAGES_PER_CHAT
           /\ \A i, j \in 1..Len(h) :
                 i < j => h[i].created_at < h[j].created_at
           /\ \A x \in H, r \in R \ H : x.created_at < r.created_at
           /\ Cardinality(R) > MAX_MESSAGES_PER_CHAT =>
                 \A r \in R : (\A q \in R : q.created_at <= r.created_at)
                                  => r \notin H]_vars

\* a message handled in a chat of more than MAX_MESSAGES_PER_CHAT rows: the
\* history holds the first rows, the answer saved by the request before
\* is not in it
C26_Witness ==
    /\ req.stage = "done" /\ req.handler = "message"
    /\ Len(req.history) = MAX_MESSAGES_PER_CHAT
    /\ \E r \in RowSet(db, req.chat) :
          /\ r.id = lastId - 2
          /\ r.role = "assistant"
          /\ \A i \in 1..Len(req.history) : req.history[i].id < r.id

====
